---- MODULE Spec2Model ----
(***************************************************************************)
(* WhatsAppManager (session supervisor and dispatch scheduler), MemStorage *)
(* and the start/stop request handlers.                                    *)
(*                                                                         *)
(* Execution model: Node runs one callback at a time.  An action of this   *)
(* module is the code that runs from one resumption to the next await on   *)
(* an operation that performs I/O (capability send / destroy / acquire,    *)
(* file read).  An await on a promise that is already settled (the         *)
(* MemStorage methods, a nested async method that returned) resumes in the *)
(* microtask queue of the same callback, before any timer or I/O callback, *)
(* so it is not an interleaving point.                                     *)
(*                                                                         *)
(* Strings are sequences of tokens; "@c.us" and "\n" are single tokens.    *)
(* Time is abstract: an armed interval may fire at any moment.             *)
(***************************************************************************)
EXTENDS Integers, Sequences, FiniteSets, TLC

\* ------------------------------------------------------------------ bounds
\* startSession / stopSession / request calls and interval firings explored
MaxCalls == 2
MaxFires == 1
\* the same for the specification of overlapping restarts (three calls) and of
\* successive steps (two firings)
MaxCallsWide == 3
MaxFiresWide == 2

\* calls and firings explored under SpecValid
MaxCallsValid == 3
MaxFiresValid == 1

\* incrementMessageCount calls explored under SpecStore, and how many of them
\* one tick issues
MaxStoreCalls == 4
MaxBatch == 2

SessionIds == {"s1", "s2"}

\* ----------------------------------------------------------------- strings
RECURSIVE Split(_, _)
\* String.prototype.split(sep): the pieces between separators, empty pieces kept
Split(s, sep) ==
  IF \A i \in 1..Len(s) : s[i] # sep
  THEN <<s>>
  ELSE LET i == CHOOSE j \in 1..Len(s) :
                  s[j] = sep /\ \A k \in 1..(j - 1) : s[k] # sep
       IN  <<SubSeq(s, 1, i - 1)>> \o Split(SubSeq(s, i + 1, Len(s)), sep)

RECURSIVE Trim(_)
\* String.prototype.trim(): leading and trailing white space removed
Trim(s) ==
  IF s = <<>> THEN s
  ELSE IF Head(s) = " " THEN Trim(Tail(s))
  ELSE IF s[Len(s)] = " " THEN Trim(SubSeq(s, 1, Len(s) - 1))
  ELSE s

MapTrim(list) == [i \in 1..Len(list) |-> Trim(list[i])]

\* Array.prototype.filter(Boolean) on strings: the empty string is dropped
FilterBoolean(list) == SelectSeq(list, LAMBDA x : x # <<>>)

\* session.targets.split(',').map(t => t.trim()).filter(Boolean)
ParseTargets(raw) == FilterBoolean(MapTrim(Split(raw, ",")))

\* text.split('\n').filter(Boolean)
ParseMessages(text) == FilterBoolean(Split(text, "\n"))

\* target.includes('@c.us') ? target : `${target}@c.us`
FormatTarget(target) ==
  IF \E i \in 1..Len(target) : target[i] = "@c.us"
  THEN target
  ELSE target \o <<"@c.us">>

\* ------------------------------------------------------------------ inputs
\* raw `targets` strings of a start call: "", " , " and "a, b@c.us"
TargetInputs == { <<>>, <<" ", ",", " ">>, <<"a", ",", " ", "b", "@c.us">> }

\* raw `messageText` strings: "" (falsy: the message file is read instead),
\* "\n" (truthy, no non-empty line) and "h\n\ny"
MessageTexts == { <<>>, <<"\n">>, <<"h", "\n", "\n", "y">> }

\* contents the message file may have when it can be read
FileContents == { <<"\n">>, <<"h">> }

\* connectionType, and whether session.phoneId is truthy
Connections ==
  { [connectionType |-> "creds",   phoneId |-> FALSE],
    [connectionType |-> "phoneId", phoneId |-> TRUE],
    [connectionType |-> "phoneId", phoneId |-> FALSE] }

\* the fields of a WhatsappSession that startSession itself reads.  The
\* connection fields are read by createWhatsAppClient alone and are drawn from
\* Connections where it settles.
Sessions ==
  [sessionId : SessionIds, targets : TargetInputs, messageText : MessageTexts]

\* ------------------------------------------------------------------- state
VARIABLES
  activeSessions, \* WhatsAppManager.activeSessions: Map sessionId -> live state
  timers,         \* intervals armed by setInterval and not yet cleared
  nextTimer,      \* the next interval handle setInterval returns
  clients,        \* every client createWhatsAppClient returned: destroy() calls
  sessions,       \* MemStorage.sessions: Map sessionId -> persisted record
  calls,          \* async calls suspended at an await on I/O
  nextCall,       \* number of startSession / stopSession / request calls so far + 1
  fires,          \* number of interval firings so far
  ret,            \* the most recent call that ran to its end, with its outcome
  dispatched,     \* per id: the pairs handed to sendMessage since the live state was registered
  stopped         \* per id: a stopSession call returned true and no start was called since

vars ==
  <<activeSessions, timers, nextTimer, clients, sessions, calls, nextCall,
    fires, ret, dispatched, stopped>>

\* ------------------------------------------------------------ Map helpers
\* the shape of a live-session table entry, with no client and no interval
NoData ==
  [client |-> 0, interval |-> 0, targets |-> <<>>, messages |-> <<>>,
   messageIndex |-> 0, targetIndex |-> 0]

EmptyMap == [k \in {} |-> NoData]

Has(map, key) == key \in DOMAIN map

MapSet(map, key, value) ==
  [k \in DOMAIN map \cup {key} |-> IF k = key THEN value ELSE map[k]]

MapDelete(map, key) == [k \in DOMAIN map \ {key} |-> map[k]]

\* -------------------------------------------------------------- MemStorage
\* createSession: the record starts with messageCount 0 and isActive false,
\* whatever isActive the caller passed.  The configuration fields are copied
\* unchanged and are not part of the stored state here.
CreateSession(store, sessionData) ==
  MapSet(store, sessionData.sessionId,
         [id |-> Cardinality(DOMAIN store) + 1,
          messageCount |-> 0,
          isActive |-> FALSE])

UpdateSessionStatus(store, sessionId, isActive) ==
  IF ~Has(store, sessionId) THEN store
  ELSE MapSet(store, sessionId, [store[sessionId] EXCEPT !.isActive = isActive])

\* IncrementMessageCount ignoring its key: every record is incremented
IncrementMessageCountOfAll(store, sessionId) ==
  [id \in DOMAIN store |->
     [store[id] EXCEPT !.messageCount = store[id].messageCount + 1]]

\* IncrementMessageCount adding two
IncrementMessageCountTwice(store, sessionId) ==
  IF ~Has(store, sessionId) THEN store
  ELSE MapSet(store, sessionId,
              [store[sessionId] EXCEPT !.messageCount = store[sessionId].messageCount + 2])

IncrementMessageCount(store, sessionId) ==
  IF ~Has(store, sessionId) THEN store
  ELSE MapSet(store, sessionId,
              [store[sessionId] EXCEPT !.messageCount = store[sessionId].messageCount + 1])

\* ------------------------------------------------------------ call records
NoSession == [sessionId |-> "", targets |-> <<>>, messageText |-> <<>>]

\* a call of startSession / stopSession (op, via: called directly or by a request
\* handler) or a dispatch step, with the locals it holds across its await:
\* session (the argument), text (<<>>, or <<t>> once the text t to split into
\* messages is known), targets and messages (the parsed lists), data (the
\* sessionData that stopSession or sendNextMessage got from the table)
Call(id, op, via, pc, sessionId, session, data) ==
  [id |-> id, op |-> op, via |-> via, pc |-> pc, sessionId |-> sessionId,
   session |-> session, text |-> <<>>, targets |-> <<>>, messages |-> <<>>,
   data |-> data]

\* the outcome of a call that ran to its end: its id, its result, the HTTP status when
\* a request handler made it (400 and 404: the handler answered without calling
\* the manager), the raw targets and text it was given, and whether
\* client.destroy() threw in it
Ret(call, result, status, teardownFailed) ==
  [call |-> call.id, op |-> call.op, via |-> call.via,
   sessionId |-> call.sessionId, result |-> result, status |-> status,
   targets |-> call.session.targets, text |-> call.text,
   teardownFailed |-> teardownFailed]

NoRet ==
  [call |-> 0, op |-> "none", via |-> "direct", sessionId |-> "",
   result |-> FALSE, status |-> 0, targets |-> <<>>, text |-> <<>>,
   teardownFailed |-> FALSE]

Init ==
  /\ activeSessions = EmptyMap
  /\ timers = {}
  /\ nextTimer = 1
  /\ clients = <<>>
  /\ sessions = EmptyMap
  /\ calls = {}
  /\ nextCall = 1
  /\ fires = 0
  /\ ret = NoRet
  /\ dispatched = [s \in SessionIds |-> <<>>]
  /\ stopped = [s \in SessionIds |-> FALSE]

\* ------------------------------------------- WhatsAppManager: pure helpers
\* clearInterval(handle)
ClearInterval(armed, handle) == {t \in armed : t.handle # handle}

\* client.destroy() is invoked on a client
Destroy(cl, client) ==
  [cl EXCEPT ![client].destroyCalls = cl[client].destroyCalls + 1]

\* createWhatsAppClient: TRUE when it returns a client, FALSE when it throws.
\* credsOk: the credential file exists and parses; initOk: the library import
\* and client.initialize() succeed (production only)
CreateWhatsAppClient(connection, isProduction, credsOk, initOk) ==
  IF connection.connectionType = "creds"
  THEN credsOk /\ (isProduction => initOk)
  ELSE IF connection.connectionType = "phoneId" /\ connection.phoneId
  THEN isProduction => (credsOk /\ initOk)
  ELSE FALSE

\* StartParse without the two length checks: a call whose lists are empty goes
\* on to acquire a client
StartParseUnchecked(c) ==
  LET targets == ParseTargets(c.session.targets)
  IN  IF c.session.messageText # <<>>
      THEN [c EXCEPT !.pc = "acquire", !.targets = targets,
                     !.text = <<c.session.messageText>>,
                     !.messages = ParseMessages(c.session.messageText)]
      ELSE [c EXCEPT !.pc = "readFile", !.targets = targets]

\* startSession from the parsing of targets to its next await or return:
\* the call at pc "return" (it returned false), "readFile" or "acquire"
StartParse(c) ==
  LET targets == ParseTargets(c.session.targets)
  IN  IF Len(targets) = 0
      THEN [c EXCEPT !.pc = "return"]
      ELSE IF c.session.messageText # <<>>
      THEN LET messages == ParseMessages(c.session.messageText)
           IN  IF Len(messages) = 0
               THEN [c EXCEPT !.pc = "return", !.targets = targets,
                              !.text = <<c.session.messageText>>]
               ELSE [c EXCEPT !.pc = "acquire", !.targets = targets,
                              !.text = <<c.session.messageText>>,
                              !.messages = messages]
      ELSE [c EXCEPT !.pc = "readFile", !.targets = targets]

\* startSession after fs.readFile of the message file resolved with content
StartFileRead(c, content) ==
  LET messages == ParseMessages(content)
  IN  IF Len(messages) = 0
      THEN [c EXCEPT !.pc = "return", !.text = <<content>>]
      ELSE [c EXCEPT !.pc = "acquire", !.text = <<content>>, !.messages = messages]

\* NextMessageIndex without the wrap to 0
NextMessageIndexUnwrapped(data) == data.messageIndex + 1

\* the cursor pair after a step from (messageIndex, targetIndex)
NextMessageIndex(data) == (data.messageIndex + 1) % Len(data.messages)

NextTargetIndex(data) ==
  IF NextMessageIndex(data) = 0
  THEN (data.targetIndex + 1) % Len(data.targets)
  ELSE data.targetIndex

\* ------------------------------------------------ request handlers: helpers
\* HTTP status of the response; 0 for a call that no request handler made
RouteStatus(via, success) ==
  IF via = "route" THEN (IF success THEN 200 ELSE 500) ELSE 0

\* POST /session/start after startSession returned
AfterStartSession(store, c, success) ==
  IF c.via = "route" /\ ~success
  THEN UpdateSessionStatus(store, c.sessionId, FALSE)
  ELSE store

\* POST /session/stop after stopSession returned
AfterStopSession(store, c, success) ==
  IF c.via = "route" /\ success
  THEN UpdateSessionStatus(store, c.sessionId, FALSE)
  ELSE store

\* ----------------------------------------------------------------- actions
\* a startSession call moves on to r (see StartParse), storage being `store`
StartContinues(c, r, store) ==
  /\ calls' = (calls \ {c}) \cup (IF r.pc = "return" THEN {} ELSE {r})
  /\ IF r.pc = "return"
     THEN /\ ret' = Ret(r, FALSE, RouteStatus(r.via, FALSE), FALSE)
          /\ sessions' = AfterStartSession(store, r, FALSE)
     ELSE /\ ret' = ret
          /\ sessions' = store

\* startSession(session) up to its first await on I/O
StartSessionCall(session, via, store) ==
  LET sessionId == session.sessionId
      c == Call(nextCall, "start", via, "invoked", sessionId, session, NoData)
  IN  /\ nextCall' = nextCall + 1
      /\ stopped' = [stopped EXCEPT ![sessionId] = FALSE]
      /\ IF Has(activeSessions, sessionId)
         THEN LET data == activeSessions[sessionId]
              IN  /\ timers' = ClearInterval(timers, data.interval)
                  /\ clients' = Destroy(clients, data.client)
                  /\ calls' = calls \cup {[c EXCEPT !.pc = "stopDestroy", !.data = data]}
                  /\ ret' = ret
                  /\ sessions' = store
         ELSE /\ StartContinues(c, StartParse(c), store)
              /\ UNCHANGED <<timers, clients>>
      /\ UNCHANGED <<activeSessions, nextTimer, fires, dispatched>>

\* StopSessionNotFound reporting success for an id that is not live
StopSessionNotFoundIdempotent(c) ==
  /\ ret' = Ret(c, TRUE, RouteStatus(c.via, TRUE), FALSE)
  /\ UNCHANGED <<timers, clients, calls>>

\* stopSession finds no entry for the id: it returns false
StopSessionNotFound(c) ==
  /\ ret' = Ret(c, FALSE, RouteStatus(c.via, FALSE), FALSE)
  /\ UNCHANGED <<timers, clients, calls>>

\* stopSession(sessionId) up to its await on client.destroy()
StopSessionCall(sessionId, via, store) ==
  LET c == Call(nextCall, "stop", via, "invoked", sessionId, NoSession, NoData)
  IN  /\ nextCall' = nextCall + 1
      /\ sessions' = store
      /\ IF ~Has(activeSessions, sessionId)
         THEN StopSessionNotFound(c)
         ELSE LET data == activeSessions[sessionId]
              IN  /\ timers' = ClearInterval(timers, data.interval)
                  /\ clients' = Destroy(clients, data.client)
                  /\ calls' = calls \cup {[c EXCEPT !.pc = "stopDestroy", !.data = data]}
                  /\ ret' = ret
      /\ UNCHANGED <<activeSessions, nextTimer, fires, dispatched, stopped>>

\* a caller that holds a stored session record calls startSession with it
StartSession(session) ==
  /\ Has(sessions, session.sessionId)
  /\ StartSessionCall(session, "direct", sessions)

\* a caller calls stopSession
StopSession(sessionId) ==
  StopSessionCall(sessionId, "direct", sessions)

\* the validated body of POST /api/whatsapp/session/start
StartBodies == [targets : TargetInputs, messageText : MessageTexts]

\* NanoId giving the same id to every request
NanoIdFixed(store) == CHOOSE id \in SessionIds : TRUE

\* nanoid(): an id that was never used
NanoId(store) == CHOOSE id \in SessionIds : ~Has(store, id)

\* POST /api/whatsapp/session/start: validation, a fresh id, createSession,
\* then startSession with the stored record
StartRequest(body) ==
  /\ IF Len(body.targets) < 1
     THEN /\ ret' = Ret(Call(nextCall, "start", "route", "invalid", "", NoSession, NoData),
                        FALSE, 400, FALSE)
          /\ nextCall' = nextCall + 1
          /\ UNCHANGED <<activeSessions, timers, nextTimer, clients, sessions,
                         calls, fires, dispatched, stopped>>
     ELSE /\ DOMAIN sessions # SessionIds
          /\ LET session == [sessionId |-> NanoId(sessions),
                             targets |-> body.targets,
                             messageText |-> body.messageText]
             IN  StartSessionCall(session, "route", CreateSession(sessions, session))

\* POST /api/whatsapp/session/stop; sessionId "" stands for a missing id
StopRequest(sessionId) ==
  /\ IF sessionId = "" \/ ~Has(sessions, sessionId)
     THEN /\ ret' = Ret(Call(nextCall, "stop", "route", "invalid", sessionId, NoSession, NoData),
                        FALSE, IF sessionId = "" THEN 400 ELSE 404, FALSE)
          /\ nextCall' = nextCall + 1
          /\ UNCHANGED <<activeSessions, timers, nextTimer, clients, sessions,
                         calls, fires, dispatched, stopped>>
     ELSE StopSessionCall(sessionId, "route", sessions)

\* DestroySettles without the inner try/catch: a throw of client.destroy()
\* reaches the outer catch, which returns false and leaves the entry in place
DestroySettlesPropagates(c, ok) ==
  /\ c \in calls
  /\ c.pc = "stopDestroy"
  /\ calls' = calls \ {c}
  /\ activeSessions' = IF ok THEN MapDelete(activeSessions, c.sessionId)
                             ELSE activeSessions
  /\ ret' = Ret(c, ok, RouteStatus(c.via, ok), ~ok)
  /\ sessions' = AfterStopSession(sessions, c, ok)
  /\ stopped' = [stopped EXCEPT ![c.sessionId] = ok]
  /\ UNCHANGED <<timers, nextTimer, clients, nextCall, fires, dispatched>>

\* DestroySettles with a stopSession that also deletes the stored record
DestroySettlesDropsRecord(c, ok) ==
  /\ c \in calls
  /\ c.pc = "stopDestroy"
  /\ activeSessions' = MapDelete(activeSessions, c.sessionId)
  /\ IF c.op = "stop"
     THEN /\ calls' = calls \ {c}
          /\ ret' = Ret(c, TRUE, RouteStatus(c.via, TRUE), ~ok)
          /\ sessions' = MapDelete(AfterStopSession(sessions, c, TRUE), c.sessionId)
          /\ stopped' = [stopped EXCEPT ![c.sessionId] = TRUE]
     ELSE /\ StartContinues(c, StartParse(c), sessions)
          /\ UNCHANGED stopped
  /\ UNCHANGED <<timers, nextTimer, clients, nextCall, fires, dispatched>>

\* client.destroy() settles (ok: it resolved; ~ok: it threw, which is logged):
\* stopSession deletes the entry and returns true; a startSession that called
\* it goes on to parse its configuration
DestroySettles(c, ok) ==
  /\ c \in calls
  /\ c.pc = "stopDestroy"
  /\ activeSessions' = MapDelete(activeSessions, c.sessionId)
  /\ IF c.op = "stop"
     THEN /\ calls' = calls \ {c}
          /\ ret' = Ret(c, TRUE, RouteStatus(c.via, TRUE), ~ok)
          /\ sessions' = AfterStopSession(sessions, c, TRUE)
          /\ stopped' = [stopped EXCEPT ![c.sessionId] = TRUE]
     ELSE /\ StartContinues(c, StartParse(c), sessions)
          /\ UNCHANGED stopped
  /\ UNCHANGED <<timers, nextTimer, clients, nextCall, fires, dispatched>>

\* fs.readFile(session.messagePath) settles: it threw, or gave the content
ReadFileSettles(c, ok, content) ==
  /\ c \in calls
  /\ c.pc = "readFile"
  /\ StartContinues(c, IF ok THEN StartFileRead(c, content)
                             ELSE [c EXCEPT !.pc = "return"], sessions)
  /\ UNCHANGED <<activeSessions, timers, nextTimer, clients, nextCall, fires,
                 dispatched, stopped>>

\* createWhatsAppClient settles: on a client the interval is armed, the live
\* state registered and true returned; on a throw false is returned
AcquireSettles(c, connection, isProduction, credsOk, initOk) ==
  /\ c \in calls
  /\ c.pc = "acquire"
  /\ calls' = calls \ {c}
  /\ IF CreateWhatsAppClient(connection, isProduction, credsOk, initOk)
     THEN /\ clients' = Append(clients, [destroyCalls |-> 0])
          /\ timers' = timers \cup {[handle |-> nextTimer, sessionId |-> c.sessionId]}
          /\ nextTimer' = nextTimer + 1
          /\ activeSessions' =
               MapSet(activeSessions, c.sessionId,
                      [client |-> Len(clients) + 1, interval |-> nextTimer,
                       targets |-> c.targets, messages |-> c.messages,
                       messageIndex |-> 0, targetIndex |-> 0])
          /\ ret' = Ret(c, TRUE, RouteStatus(c.via, TRUE), FALSE)
          /\ sessions' = AfterStartSession(sessions, c, TRUE)
          /\ dispatched' = [dispatched EXCEPT ![c.sessionId] = <<>>]
     ELSE /\ ret' = Ret(c, FALSE, RouteStatus(c.via, FALSE), FALSE)
          /\ sessions' = AfterStartSession(sessions, c, FALSE)
          /\ UNCHANGED <<activeSessions, timers, nextTimer, clients, dispatched>>
  /\ UNCHANGED <<nextCall, fires, stopped>>

\* TimerFires counting a message when the table has no entry for the id
TimerFiresCountsAbsent(t) ==
  /\ t \in timers
  /\ fires' = fires + 1
  /\ IF ~Has(activeSessions, t.sessionId)
     THEN /\ ret' = Ret(Call(0, "skip", "timer", "return", t.sessionId,
                             NoSession, NoData), FALSE, 0, FALSE)
          /\ sessions' = IncrementMessageCount(sessions, t.sessionId)
          /\ UNCHANGED <<calls, dispatched>>
     ELSE LET sessionData == activeSessions[t.sessionId]
              target == sessionData.targets[sessionData.targetIndex + 1]
              message == sessionData.messages[sessionData.messageIndex + 1]
          IN  /\ calls' = calls \cup
                   {Call(fires + 1, "step", "timer", "send", t.sessionId,
                         NoSession, sessionData)}
              /\ dispatched' =
                   [dispatched EXCEPT ![t.sessionId] =
                      Append(@, <<FormatTarget(target), message>>)]
              /\ ret' = ret
              /\ sessions' = sessions
  /\ UNCHANGED <<activeSessions, timers, nextTimer, clients, nextCall,
                 stopped>>

\* an armed interval fires: sendNextMessage up to its await on sendMessage
\* (with no entry for the id it returns at once: ret.op is "skip")
TimerFires(t) ==
  /\ t \in timers
  /\ fires' = fires + 1
  /\ IF ~Has(activeSessions, t.sessionId)
     THEN /\ ret' = Ret(Call(0, "skip", "timer", "return", t.sessionId,
                             NoSession, NoData), FALSE, 0, FALSE)
          /\ UNCHANGED <<calls, dispatched>>
     ELSE LET sessionData == activeSessions[t.sessionId]
              target == sessionData.targets[sessionData.targetIndex + 1]
              message == sessionData.messages[sessionData.messageIndex + 1]
          IN  /\ calls' = calls \cup
                   {Call(fires + 1, "step", "timer", "send", t.sessionId,
                         NoSession, sessionData)}
              /\ dispatched' =
                   [dispatched EXCEPT ![t.sessionId] =
                      Append(@, <<FormatTarget(target), message>>)]
              /\ ret' = ret
  /\ UNCHANGED <<activeSessions, timers, nextTimer, clients, sessions, nextCall,
                 stopped>>

\* SendSettles ending the session on a rejected send: the catch block clears
\* the interval and deletes the entry
SendSettlesStopsOnReject(c, ok) ==
  /\ c \in calls
  /\ c.pc = "send"
  /\ calls' = calls \ {c}
  /\ ret' = Ret(c, ok, 0, FALSE)
  /\ IF ok
     THEN /\ sessions' = IncrementMessageCount(sessions, c.sessionId)
          /\ activeSessions' =
               MapSet(activeSessions, c.sessionId,
                      [c.data EXCEPT !.messageIndex = NextMessageIndex(c.data),
                                     !.targetIndex = NextTargetIndex(c.data)])
          /\ timers' = timers
     ELSE /\ sessions' = sessions
          /\ activeSessions' = MapDelete(activeSessions, c.sessionId)
          /\ timers' = ClearInterval(timers, c.data.interval)
  /\ UNCHANGED <<nextTimer, clients, nextCall, fires, dispatched, stopped>>

\* client.sendMessage settles: resolved (the count is incremented and the
\* cursor written back over the entry) or rejected (logged)
SendSettles(c, ok) ==
  /\ c \in calls
  /\ c.pc = "send"
  /\ calls' = calls \ {c}
  /\ ret' = Ret(c, ok, 0, FALSE)
  /\ IF ok
     THEN /\ sessions' = IncrementMessageCount(sessions, c.sessionId)
          /\ activeSessions' =
               MapSet(activeSessions, c.sessionId,
                      [c.data EXCEPT !.messageIndex = NextMessageIndex(c.data),
                                     !.targetIndex = NextTargetIndex(c.data)])
     ELSE UNCHANGED <<sessions, activeSessions>>
  /\ UNCHANGED <<timers, nextTimer, clients, nextCall, fires, dispatched, stopped>>

\* the steps of the program while fewer than maxCalls calls were made (for a
\* call) and fewer than maxFires firings happened (for a firing)
NextOf(maxCalls, maxFires) ==
  \/ \E body \in StartBodies : nextCall <= maxCalls /\ StartRequest(body)
  \/ \E sessionId \in SessionIds \cup {""} :
       nextCall <= maxCalls /\ StopRequest(sessionId)
  \/ \E session \in Sessions : nextCall <= maxCalls /\ StartSession(session)
  \/ \E sessionId \in SessionIds : nextCall <= maxCalls /\ StopSession(sessionId)
  \/ \E c \in calls, ok \in BOOLEAN : DestroySettles(c, ok)
  \/ \E c \in calls, ok \in BOOLEAN, content \in FileContents :
       ReadFileSettles(c, ok, content)
  \/ \E c \in calls, connection \in Connections, isProduction \in BOOLEAN,
          credsOk \in BOOLEAN, initOk \in BOOLEAN :
       AcquireSettles(c, connection, isProduction, credsOk, initOk)
  \/ \E t \in timers : fires < maxFires /\ TimerFires(t)
  \/ \E c \in calls, ok \in BOOLEAN : SendSettles(c, ok)

Next == NextOf(MaxCalls, MaxFires)

Spec == Init /\ [][Next]_vars

NextWide == NextOf(MaxCallsWide, MaxFiresWide)

SpecWide == Init /\ [][NextWide]_vars

\* The manager is written against the IStorage interface, whose methods return
\* promises. MemStorage never rejects them; under SpecAnyStore the store is any
\* implementation of the interface and incrementMessageCount may reject.

\* client.sendMessage resolved and the promise of incrementMessageCount
\* rejects: the catch block of sendNextMessage logs it, the rest of the try
\* block (the cursor computation and the write-back) is skipped
IncrementRejects(c) ==
  /\ c \in calls
  /\ c.pc = "send"
  /\ calls' = calls \ {c}
  /\ ret' = Ret(c, TRUE, 0, FALSE)
  /\ UNCHANGED <<activeSessions, timers, nextTimer, clients, sessions, nextCall,
                 fires, dispatched, stopped>>

NextAnyStore ==
  \/ NextOf(MaxCalls, MaxFires)
  \/ \E c \in calls : IncrementRejects(c)

SpecAnyStore == Init /\ [][NextAnyStore]_vars

\* SpecValid: every request and call carries a well-formed configuration
\* (two targets, two inline messages), which leaves room for a third call
ValidBody ==
  [targets |-> <<"a", ",", " ", "b", "@c.us">>,
   messageText |-> <<"h", "\n", "\n", "y">>]

ValidSessions ==
  {[sessionId |-> sessionId, targets |-> ValidBody.targets,
    messageText |-> ValidBody.messageText] : sessionId \in SessionIds}

NextValid ==
  \/ nextCall <= MaxCallsValid /\ StartRequest(ValidBody)
  \/ \E sessionId \in SessionIds :
       nextCall <= MaxCallsValid /\ StopRequest(sessionId)
  \/ \E session \in ValidSessions :
       nextCall <= MaxCallsValid /\ StartSession(session)
  \/ \E sessionId \in SessionIds :
       nextCall <= MaxCallsValid /\ StopSession(sessionId)
  \/ \E c \in calls, ok \in BOOLEAN : DestroySettles(c, ok)
  \/ \E c \in calls, connection \in Connections, isProduction \in BOOLEAN,
          credsOk \in BOOLEAN, initOk \in BOOLEAN :
       AcquireSettles(c, connection, isProduction, credsOk, initOk)
  \/ \E t \in timers : fires < MaxFiresValid /\ TimerFires(t)
  \/ \E c \in calls, ok \in BOOLEAN : SendSettles(c, ok)

SpecValid == Init /\ [][NextValid]_vars

\* SpecStore: the operations of MemStorage on their own, called by any code.
\* The body of an async method with no await in it runs to its end when the
\* method is called; the promise it returned resolves in a later tick. calls
\* holds the incrementMessageCount calls made, pending or resolved.

\* the incrementMessageCount calls one tick may issue: ids of stored records
Batches(store) ==
  UNION {[1..n -> DOMAIN store] : n \in 1..MaxBatch}

\* every call of ids reads the record before any call writes it back, as if
\* the read and the write of incrementMessageCount were separated by an await
IncrementAllFromSnapshot(store, ids) ==
  [id \in DOMAIN store |->
     IF \E i \in DOMAIN ids : ids[i] = id
     THEN [store[id] EXCEPT !.messageCount = store[id].messageCount + 1]
     ELSE store[id]]

RECURSIVE IncrementAll(_, _)
\* incrementMessageCount called for each id of ids in turn, within one tick
IncrementAll(store, ids) ==
  IF ids = <<>> THEN store
  ELSE IncrementAll(IncrementMessageCount(store, Head(ids)), Tail(ids))

\* storage.createSession for an id that has no record
StoreCreateSession(session) ==
  /\ ~Has(sessions, session.sessionId)
  /\ sessions' = CreateSession(sessions, session)
  /\ UNCHANGED <<activeSessions, timers, nextTimer, clients, calls, nextCall,
                 fires, ret, dispatched, stopped>>

\* storage.updateSessionStatus
StoreUpdateSessionStatus(sessionId, isActive) ==
  /\ sessions' = UpdateSessionStatus(sessions, sessionId, isActive)
  /\ UNCHANGED <<activeSessions, timers, nextTimer, clients, calls, nextCall,
                 fires, ret, dispatched, stopped>>

\* one tick calls storage.incrementMessageCount for each id of ids and awaits
\* none of the promises before it has made the last call
StoreIncrements(ids) ==
  /\ nextCall + Len(ids) - 1 <= MaxStoreCalls
  /\ sessions' = IncrementAll(sessions, ids)
  /\ calls' = calls \cup
       {Call(nextCall + i - 1, "increment", "direct", "pending", ids[i],
             NoSession, NoData) : i \in DOMAIN ids}
  /\ nextCall' = nextCall + Len(ids)
  /\ UNCHANGED <<activeSessions, timers, nextTimer, clients, fires, ret,
                 dispatched, stopped>>

\* the promise of an incrementMessageCount call resolves
StoreResolves(c) ==
  /\ c \in calls
  /\ c.pc = "pending"
  /\ calls' = (calls \ {c}) \cup {[c EXCEPT !.pc = "resolved"]}
  /\ UNCHANGED <<activeSessions, timers, nextTimer, clients, sessions, nextCall,
                 fires, ret, dispatched, stopped>>

NextStore ==
  \/ \E session \in Sessions : StoreCreateSession(session)
  \/ \E sessionId \in SessionIds, isActive \in BOOLEAN :
       StoreUpdateSessionStatus(sessionId, isActive)
  \/ \E ids \in Batches(sessions) : StoreIncrements(ids)
  \/ \E c \in calls : StoreResolves(c)

SpecStore == Init /\ [][NextStore]_vars

\* SpecLive: sessions that are started by requests and never stopped, with
\* intervals that keep firing. A firing is not counted (fires and dispatched
\* stay), a session's interval fires again once the send of its previous
\* step has settled, and every send to the first target of a session is
\* rejected.

\* an armed interval fires while no step of its session is pending:
\* sendNextMessage up to its await on sendMessage
TimerFiresAgain(t) ==
  /\ t \in timers
  /\ Has(activeSessions, t.sessionId)
  /\ \A c \in calls : ~(c.op = "step" /\ c.sessionId = t.sessionId)
  /\ calls' = calls \cup
       {Call(0, "step", "timer", "send", t.sessionId, NoSession,
             activeSessions[t.sessionId])}
  /\ UNCHANGED <<activeSessions, timers, nextTimer, clients, sessions, nextCall,
                 fires, ret, dispatched, stopped>>

\* the pending send of a step of sessionId settles; rejected when it went to
\* the first target
SendSettlesFor(sessionId) ==
  \E c \in calls, ok \in BOOLEAN :
    /\ c.op = "step"
    /\ c.sessionId = sessionId
    /\ c.data.targetIndex = 0 => ~ok
    /\ SendSettles(c, ok)

\* the interval of sessionId fires
TimerFiresFor(sessionId) ==
  \E t \in timers : t.sessionId = sessionId /\ TimerFiresAgain(t)

NextLive ==
  \/ \E body \in StartBodies : nextCall <= MaxCalls /\ StartRequest(body)
  \/ \E c \in calls, ok \in BOOLEAN, content \in FileContents :
       ReadFileSettles(c, ok, content)
  \/ \E c \in calls, connection \in Connections, isProduction \in BOOLEAN,
          credsOk \in BOOLEAN, initOk \in BOOLEAN :
       AcquireSettles(c, connection, isProduction, credsOk, initOk)
  \/ \E sessionId \in SessionIds : TimerFiresFor(sessionId)
  \/ \E sessionId \in SessionIds : SendSettlesFor(sessionId)

\* an armed interval fires every period and a pending send settles
SpecLive ==
  /\ Init
  /\ [][NextLive]_vars
  /\ \A sessionId \in SessionIds :
       /\ WF_vars(TimerFiresFor(sessionId))
       /\ WF_vars(SendSettlesFor(sessionId))

\* ------------------------------------------------------------------ claims
TimersOf(armed, sessionId) == {t \in armed : t.sessionId = sessionId}

\* a call runs to its end in this step (ids are unique among the steps, and
\* among the other calls)
Returns ==
  \/ ret'.call # ret.call
  \/ (ret'.op = "step") # (ret.op = "step")

\* ret describes a startSession call that ran to its end
StartSessionReturned(r) == r.op = "start" /\ r.status # 400

\* ret describes a stopSession call that ran to its end
StopSessionReturned(r) == r.op = "stop" /\ r.status \notin {400, 404}

\* the configuration of a returned startSession call parsed to an empty target
\* list, or its text (inline or read from the file) to an empty message list
EmptyConfig(r) ==
  \/ ParseTargets(r.targets) = <<>>
  \/ Len(r.text) = 1 /\ ParseMessages(r.text[1]) = <<>>

\* C1: while a session is live, the k-th pair (k from 0) handed to sendMessage
\* since its live state was registered is
\* (targets[(k div M) mod T], messages[k mod M]), the target in address form
C1_VisitingOrder ==
  \A sessionId \in DOMAIN activeSessions :
    LET e == activeSessions[sessionId]
        T == Len(e.targets)
        M == Len(e.messages)
    IN  \A k \in 0..(Len(dispatched[sessionId]) - 1) :
          dispatched[sessionId][k + 1] =
            <<FormatTarget(e.targets[((k \div M) % T) + 1]), e.messages[(k % M) + 1]>>

\* C2: at most one armed interval exists per session id
C2_AtMostOneTimerPerSession ==
  \A sessionId \in SessionIds : Cardinality(TimersOf(timers, sessionId)) <= 1

\* C3: between the return of a successful stopSession(id) and the next
\* startSession call for id, no sendMessage is started and the stored
\* messageCount of id does not change
C3_NoActivityAfterStop ==
  [][\A sessionId \in SessionIds :
       (stopped[sessionId] /\ stopped'[sessionId]) =>
         /\ Len(dispatched'[sessionId]) <= Len(dispatched[sessionId])
         /\ Has(sessions, sessionId) =>
              sessions'[sessionId].messageCount = sessions[sessionId].messageCount]_vars

\* C4: a startSession call whose targets or messages parse to an empty list
\* returns false, and whenever an interval is armed, a client acquired or an
\* entry given a new client, a call with non-empty lists did it
C4_EmptyConfigNeverStarts ==
  [][/\ (Returns /\ StartSessionReturned(ret') /\ EmptyConfig(ret')) =>
          /\ ~ret'.result
          /\ timers' \subseteq timers
          /\ clients' = clients
          /\ \A sessionId \in DOMAIN activeSessions' :
               /\ Has(activeSessions, sessionId)
               /\ activeSessions'[sessionId] = activeSessions[sessionId]
     /\ (~(timers' \subseteq timers) \/ Len(clients') > Len(clients)) =>
          \E c \in calls \ calls' :
            /\ c.op = "start"
            /\ ParseTargets(c.session.targets) # <<>>
            /\ Len(c.text) = 1
            /\ ParseMessages(c.text[1]) # <<>>]_vars

\* C4 witness: a start with an empty configuration has returned false
C4_Witness ==
  /\ StartSessionReturned(ret)
  /\ EmptyConfig(ret)
  /\ ~ret.result

\* C5: a stopSession(id) call made while the table has no entry for id returns
\* false and leaves the table, the intervals and the clients as they were
C5_StopUnknownIsNoop ==
  [][\A sessionId \in SessionIds :
       ( /\ nextCall' = nextCall + 1
         /\ Returns
         /\ StopSessionReturned(ret')
         /\ ret'.sessionId = sessionId
         /\ ~Has(activeSessions, sessionId) ) =>
           /\ ~ret'.result
           /\ ret'.status \in {0, 500}
           /\ UNCHANGED <<activeSessions, timers, clients, calls>>]_vars

\* C5 witness: stopSession returned false for an id that is not live while
\* another session is live with its interval armed
C5_Witness ==
  /\ StopSessionReturned(ret)
  /\ ~ret.result
  /\ ~Has(activeSessions, ret.sessionId)
  /\ activeSessions # EmptyMap
  /\ timers # {}

\* C6: when a startSession call that found its id live returns true, exactly
\* one interval is armed for the id, the interval of the session it replaced is
\* cleared, that session's client has had destroy() called, and the new entry
\* starts at messageIndex 0 and targetIndex 0
C6_RestartLeavesOneTimer ==
  [][\A c \in calls \ calls' :
       ( /\ c.op = "start"
         /\ c.pc = "acquire"
         /\ c.data # NoData
         /\ Len(clients') > Len(clients) ) =>
           /\ ret'.result
           /\ Cardinality(TimersOf(timers', c.sessionId)) = 1
           /\ \A t \in timers' : t.handle # c.data.interval
           /\ clients'[c.data.client].destroyCalls >= 1
           /\ Has(activeSessions', c.sessionId)
           /\ activeSessions'[c.sessionId].messageIndex = 0
           /\ activeSessions'[c.sessionId].targetIndex = 0]_vars

\* C7: a step whose send fails, the entry being as the step read it, leaves the
\* cursor pair advanced as a successful step would
C7_FailedSendAdvancesCursor ==
  [][\A c \in calls \ calls' :
       ( /\ c.op = "step"
         /\ ~ret'.result
         /\ Has(activeSessions, c.sessionId)
         /\ activeSessions[c.sessionId] = c.data ) =>
           /\ Has(activeSessions', c.sessionId)
           /\ activeSessions'[c.sessionId].messageIndex = NextMessageIndex(c.data)
           /\ activeSessions'[c.sessionId].targetIndex = NextTargetIndex(c.data)]_vars

\* C8: when createWhatsAppClient fails in a startSession call, the call returns
\* false, arms no interval, and the table has no entry for the id afterwards
C8_FailedAcquireLeavesNoSession ==
  [][\A c \in calls \ calls' :
       ( /\ c.op = "start"
         /\ c.pc = "acquire"
         /\ Len(clients') = Len(clients) ) =>
           /\ ~ret'.result
           /\ timers' = timers
           /\ ~Has(activeSessions', c.sessionId)]_vars

\* C9: a stopSession call that found a live session returns true (status 200
\* through the request handler) when client.destroy() settles, whether it
\* resolved or threw, and the id is then absent from the table
C9_StopFoundSucceeds ==
  [][\A c \in calls \ calls' :
       c.pc = "stopDestroy" =>
         /\ ~Has(activeSessions', c.sessionId)
         /\ c.op = "stop" =>
              /\ StopSessionReturned(ret')
              /\ ret'.sessionId = c.sessionId
              /\ ret'.result
              /\ ret'.status = RouteStatus(c.via, TRUE)]_vars

\* C9 witness: a stopSession call returned true although client.destroy() threw
C9_Witness ==
  /\ StopSessionReturned(ret)
  /\ ret.result
  /\ ret.teardownFailed
  /\ ~Has(activeSessions, ret.sessionId)

\* C10: the stored isActive is true after a start request answered 200, false
\* after a stop request answered 200, and, when no call is in progress, true
\* exactly for the ids that have an armed interval
C10_IsActiveTracksLiveness ==
  /\ (ret.op = "start" /\ ret.via = "route" /\ ret.status = 200) =>
       sessions[ret.sessionId].isActive
  /\ (ret.op = "stop" /\ ret.via = "route" /\ ret.status = 200) =>
       ~sessions[ret.sessionId].isActive
  /\ calls = {} =>
       \A sessionId \in DOMAIN sessions :
         sessions[sessionId].isActive <=> TimersOf(timers, sessionId) # {}

\* the stored messageCount of an id, 0 while it has no record
MessageCount(store, sessionId) ==
  IF Has(store, sessionId) THEN store[sessionId].messageCount ELSE 0

\* the dispatch steps of an id whose sendMessage resolves in this step
SendsResolved(sessionId) ==
  {c \in calls \ calls' : c.op = "step" /\ c.sessionId = sessionId /\ ret'.result}

\* C11: the stored messageCount of every id starts at 0 and changes only by one
\* increment for each step of the id whose send resolves; a rejected send and
\* every other step of the program leave it as it is
C11_CountIsSuccessfulSends ==
  [][\A sessionId \in DOMAIN sessions' :
       sessions'[sessionId].messageCount =
         MessageCount(sessions, sessionId) + Cardinality(SendsResolved(sessionId))]_vars

\* C11 witness: a send resolved and the count of its id is 1
C11_Witness ==
  /\ ret.op = "step"
  /\ ret.result
  /\ MessageCount(sessions, ret.sessionId) = 1

\* C12: a dispatch step that finishes while the table has no entry for its id
\* (stopSession deleted it while the send was pending) leaves the id absent
C12_NoWriteBackAfterStop ==
  [][\A c \in calls \ calls' :
       (c.op = "step" /\ ~Has(activeSessions, c.sessionId)) =>
         ~Has(activeSessions', c.sessionId)]_vars

\* C13: two dispatch steps of one live session whose sends are pending together
\* never hold the same cursor position
C13_OverlappingStepsGuarded ==
  \A c1 \in calls : \A c2 \in calls :
    (/\ c1.op = "step"
     /\ c2.op = "step"
     /\ c1.id # c2.id
     /\ c1.sessionId = c2.sessionId
     /\ c1.data.client = c2.data.client) =>
      <<c1.data.targetIndex, c1.data.messageIndex>> #
        <<c2.data.targetIndex, c2.data.messageIndex>>

EmptyParse(session) ==
  \/ ParseTargets(session.targets) = <<>>
  \/ session.messageText # <<>> /\ ParseMessages(session.messageText) = <<>>

\* this step is taken by a startSession call that fails on an empty list
EmptyStartActs ==
  \/ \E c \in (calls \ calls') \cup (calls' \ calls) :
       c.op = "start" /\ EmptyParse(c.session)
  \/ Returns /\ StartSessionReturned(ret') /\ EmptyConfig(ret')

\* C15: no step of a startSession call that fails on an empty target or message
\* list changes the table, the armed intervals or the clients, also when the id
\* has a live session
C15_EmptyStartHasNoEffect ==
  [][EmptyStartActs => UNCHANGED <<activeSessions, timers, clients>>]_vars

\* C16: a dispatch step whose send resolved and whose count was not incremented
\* still writes the advanced cursor pair to the entry of its id
C16_CursorAdvancesWithoutIncrement ==
  [][\A c \in calls \ calls' :
       (/\ c.op = "step"
        /\ ret'.result
        /\ MessageCount(sessions', c.sessionId) = MessageCount(sessions, c.sessionId)) =>
         /\ Has(activeSessions', c.sessionId)
         /\ activeSessions'[c.sessionId].messageIndex = NextMessageIndex(c.data)
         /\ activeSessions'[c.sessionId].targetIndex = NextTargetIndex(c.data)]_vars

\* C17: a live session with at least two targets, never stopped, whose sends
\* to its first target are all rejected while its interval keeps firing,
\* eventually hands a send to another target
C17_LeavesFailingTarget ==
  \A sessionId \in SessionIds :
    (/\ Has(activeSessions, sessionId)
     /\ Len(activeSessions[sessionId].targets) >= 2)
    ~> (\E c \in calls :
          /\ c.op = "step"
          /\ c.sessionId = sessionId
          /\ c.data.targetIndex # 0)

\* this step is taken by a dispatch step: an interval fires or a send settles
StepActs ==
  \/ fires' # fires
  \/ \E c \in (calls \ calls') \cup (calls' \ calls) : c.op = "step"

\* C18: an entry leaves the table only when the client.destroy() of a
\* stopSession for its id (called directly, by the stop route or by the restart
\* of startSession) settles, an interval is cleared only by such a stopSession
\* for its id, and a dispatch step, its send resolved or rejected, removes no
\* entry and clears no interval
C18_OnlyStopEndsSession ==
  [][/\ \A sessionId \in DOMAIN activeSessions :
          ~Has(activeSessions', sessionId) =>
            \E c \in calls \ calls' :
              c.pc = "stopDestroy" /\ c.sessionId = sessionId
     /\ \A t \in timers \ timers' :
          \E c \in calls' \ calls :
            /\ c.pc = "stopDestroy"
            /\ c.sessionId = t.sessionId
            /\ c.data.interval = t.handle
     /\ StepActs =>
          /\ timers' = timers
          /\ DOMAIN activeSessions \subseteq DOMAIN activeSessions']_vars

\* C18 witness: the send of a step was rejected and the session is still in
\* the table with its interval armed
C18_Witness ==
  /\ ret.op = "step"
  /\ ~ret.result
  /\ Has(activeSessions, ret.sessionId)
  /\ \E t \in timers :
       /\ t.sessionId = ret.sessionId
       /\ t.handle = activeSessions[ret.sessionId].interval

\* what the program holds for sessionId: its entry (cursors, lists, interval
\* handle, client) with the state of its client, its armed intervals and its
\* stored messageCount
StateOf(table, armed, cl, store, sessionId) ==
  [entry  |-> IF Has(table, sessionId)
              THEN <<table[sessionId], cl[table[sessionId].client]>>
              ELSE <<>>,
   armed  |-> TimersOf(armed, sessionId),
   stored |-> IF Has(store, sessionId)
              THEN <<store[sessionId].messageCount>>
              ELSE <<>>]

\* the session ids of the calls (start, stop, step) that take this step
ActingIds ==
  {c.sessionId : c \in (calls \ calls') \cup (calls' \ calls)}
    \cup (IF Returns THEN {ret'.sessionId} ELSE {})

RecordOf(store, sessionId) ==
  IF Has(store, sessionId)
  THEN <<store[sessionId].isActive, store[sessionId].messageCount>>
  ELSE <<>>

\* C20 as stated: from the call of stopSession(id) to its return the stored
\* record of id keeps its messageCount and, but for the update of the stop
\* route that made the call, its isActive
C20_RecordSameAcrossStop ==
  [][\A c \in calls \cup calls' :
       c.op = "stop" =>
         /\ Has(sessions', c.sessionId) = Has(sessions, c.sessionId)
         /\ Has(sessions, c.sessionId) =>
              /\ sessions'[c.sessionId].messageCount = sessions[c.sessionId].messageCount
              /\ c.via = "direct" =>
                   sessions'[c.sessionId].isActive = sessions[c.sessionId].isActive]_vars

\* this step is taken by a stopSession call made directly or by the stop route
StopActs ==
  \/ \E c \in (calls \ calls') \cup (calls' \ calls) : c.op = "stop"
  \/ Returns /\ ret'.op = "stop"

\* C20 amended: no step of a stopSession call writes a stored record: every
\* record keeps its messageCount, and an isActive changes only in the stop
\* route's update after stopSession returned true, to false, for the id stopped
C20_StopWritesNoRecord ==
  [][StopActs =>
       \A sessionId \in SessionIds :
         \/ RecordOf(sessions', sessionId) = RecordOf(sessions, sessionId)
         \/ /\ Has(sessions, sessionId)
            /\ RecordOf(sessions', sessionId) =
                 <<FALSE, sessions[sessionId].messageCount>>
            /\ ret'.op = "stop"
            /\ ret'.via = "route"
            /\ ret'.result
            /\ ret'.sessionId = sessionId]_vars

\* C20 witness: a direct stopSession returned true for a session whose record
\* counts a sent message
C20_Witness ==
  /\ ret.op = "stop"
  /\ ret.via = "direct"
  /\ ret.result
  /\ RecordOf(sessions, ret.sessionId) = <<FALSE, 1>>

\* C21: an interval that fires for an id with no entry in the table starts no
\* send for the id, and no firing changes a stored record or the table
C21_StepWithoutEntryIsNoop ==
  [][fires' # fires =>
       /\ \A c \in calls' \ calls : Has(activeSessions, c.sessionId)
       /\ \A sessionId \in SessionIds \ DOMAIN activeSessions :
            dispatched'[sessionId] = dispatched[sessionId]
       /\ calls \subseteq calls'
       /\ sessions' = sessions
       /\ activeSessions' = activeSessions]_vars

\* C21 witness: an interval has fired for an id that has no entry and the
\* step returned at once; the interval is still armed
C21_Witness ==
  /\ ret.op = "skip"
  /\ ~Has(activeSessions, ret.sessionId)
  /\ TimersOf(timers, ret.sessionId) # {}
  /\ fires = 1

\* the incrementMessageCount calls made so far for sessionId
IncrementCalls(sessionId) ==
  {c \in calls : c.op = "increment" /\ c.sessionId = sessionId}

\* C22: the messageCount of every record is the number of incrementMessageCount
\* calls made for its id, however many of them were issued before any resolved
C22_IncrementAtomic ==
  \A sessionId \in DOMAIN sessions :
    sessions[sessionId].messageCount = Cardinality(IncrementCalls(sessionId))

\* C22 witness: three calls are pending together, two of them for one id
C22_Witness ==
  \E a \in DOMAIN sessions : \E b \in DOMAIN sessions \ {a} :
    /\ Cardinality({c \in IncrementCalls(a) : c.pc = "pending"}) = 2
    /\ Cardinality({c \in IncrementCalls(b) : c.pc = "pending"}) = 1
    /\ sessions[a].messageCount = 2
    /\ sessions[b].messageCount = 1

C24_NoClientLeaked ==
  (\A c \in calls : c.op \notin {"start", "stop"}) =>
    \A client \in DOMAIN clients :
      \/ \E sessionId \in DOMAIN activeSessions :
           activeSessions[sessionId].client = client
      \/ clients[client].destroyCalls >= 1

\* C25: destroy() is called at most once on any client, and no dispatch step
\* hands a send to a client on which destroy() has been called
C25_DestroyOnceNoSendAfter ==
  [][/\ \A client \in DOMAIN clients' : clients'[client].destroyCalls <= 1
     /\ \A c \in calls' \ calls :
          c.op = "step" => clients[c.data.client].destroyCalls = 0]_vars

====
